---- MODULE Spec2Model ----
(***************************************************************************)
(* Model of the ukr-document-OCR repository:                               *)
(*   - make_dirty, the text-corruption engine (create_train_examples.py),  *)
(*     as a step machine, one action per rule application;                 *)
(*   - generate_data_examples and the two JSON assemblers, over a model    *)
(*     of the directories they read and write;                             *)
(*   - the /extract endpoint of server.py and the client that calls it.    *)
(*                                                                         *)
(* A character is a one-token string.  ASCII letters and digits stand for  *)
(* themselves; the other characters the source mentions have names:        *)
(*   "numero" U+2116, "deg" U+00B0, "ord" U+00BA, "cyr_X" a Cyrillic       *)
(*   letter, "LF" "CR" "FF" "TAB" the control characters, " " the space.   *)
(* A string is a sequence of characters.                                   *)
(***************************************************************************)
EXTENDS Integers, Sequences, FiniteSets, TLC

VARIABLES
    \* ---- make_dirty(text, strength) ----
    text,         \* argument: the clean text
    strength,     \* argument: <<numerator, denominator>> of the severity
    lines,        \* text.splitlines(keepends=True)
    lineNo,       \* position of the for-loop over lines (1-based), 0 outside
    dirty_lines,  \* the list being built
    line,         \* the loop variable, rewritten by every rule
    words,        \* line.split(), rewritten by the word rules
    pc,           \* where make_dirty stands
    idx,          \* the rule number (phase "sub") or the loop index i (0-based)
    result,       \* the returned string, once pc = "ret"
    sub,          \* what the last character-substitution step did (history)
    acted,        \* what the swap, split and join loops did to the line (history)
    \* ---- the ambient random source ----
    seed,         \* Unseeded: any draw may come; else the repeating tape
    rngPos,       \* the place of a seeded source on its tape (0-based)
    \* ---- generate_data_examples and the assemblers ----
    refDir,       \* target_folder: sequence of [name, data] in listdir order
    outFs,        \* result_folder: function <<dir, n>> -> data of dir/example_n.txt
    outDirs,      \* sub-directories of result_folder that exist
    gpc,          \* where the corpus generator stands
    dirtiness,    \* np.linspace(min_dirty, max_dirty, num_examples)
    fileNo,       \* position in os.listdir(target_folder)
    level,        \* enumerate index i over dirtiness (0-based)
    runs,         \* history: the arguments of every run started so far
    firstFs,      \* history: outFs as the first run left it
    written,      \* history: what the current run generated for (document, i)
    docCorpus,    \* data of create_json_training_file, by document; or NotRun, IOError
    lineCorpus,   \* data of create_json_training_file_per_line, by document and variant
    \* ---- server.py /extract and client.py ----
    req,          \* per request: where its handler stands and what it got
    tmp           \* /tmp: function from file name to bytes (partial)

mdVars  == <<text, strength, lines, lineNo, dirty_lines, line, words, pc, idx, result,
             sub, acted>>
rngVars == <<seed, rngPos>>
genVars == <<refDir, outFs, outDirs, gpc, dirtiness, fileNo, level, runs, firstFs,
             written, docCorpus, lineCorpus>>
srvVars == <<req, tmp>>
vars    == <<mdVars, rngVars, genVars, srvVars>>

----------------------------------------------------------------------------
(* Bounds of the model.                                                    *)

MaxLen  == 1     \* longest input text of make_dirty over Alphabet, in characters
MaxTape == 3     \* longest period of a tape of draws for the longer texts
SevDen  == 2     \* severities are n/SevDen, n in 0..SevDen
DrawDen == 2     \* random.random() returns u/DrawDen, u in 0..DrawDen-1

----------------------------------------------------------------------------
(* Characters.                                                             *)

SP     == " "
LF     == "LF"
CR     == "CR"
FF     == "FF"
TAB    == "TAB"
Numero == "numero"
CyrI   == "cyr_i"     \* U+0456, the Ukrainian i
CyrO   == "cyr_o"
CyrE   == "cyr_e"
CyrA   == "cyr_a"
CyrZ   == "cyr_z"
CyrT   == "cyr_t"
CyrYa  == "cyr_ya"
CyrV   == "cyr_v"

\* The characters str.split() and str.strip() treat as whitespace.
Whitespace == {SP, TAB, LF, CR, FF}

\* The characters str.splitlines() treats as line boundaries.
LineBoundaries == {LF, CR, FF}

----------------------------------------------------------------------------
(* String helpers, as Python computes them.                                *)

Min(a, b) == IF a < b THEN a ELSE b
Max(a, b) == IF a > b THEN a ELSE b

\* sep.join(xs)
RECURSIVE join(_, _)
join(sep, xs) ==
    IF xs = <<>> THEN <<>>
    ELSE IF Len(xs) = 1 THEN xs[1]
    ELSE xs[1] \o sep \o join(sep, Tail(xs))

\* s.split(): the maximal runs of non-whitespace characters; cur is the run
\* being read.
RECURSIVE split(_, _)
split(s, cur) ==
    IF s = <<>> THEN (IF cur = <<>> THEN <<>> ELSE <<cur>>)
    ELSE IF Head(s) \in Whitespace
         THEN (IF cur = <<>> THEN <<>> ELSE <<cur>>) \o split(Tail(s), <<>>)
         ELSE split(Tail(s), Append(cur, Head(s)))

\* s.splitlines(keepends=True): CR LF is one boundary; a last line without a
\* boundary is kept when it is not empty.
\* A plausible slip: lines end at LF only, as in io.StringIO(text).readlines().
RECURSIVE splitlines_lf(_, _)
splitlines_lf(s, cur) ==
    IF s = <<>> THEN (IF cur = <<>> THEN <<>> ELSE <<cur>>)
    ELSE IF Head(s) = LF THEN <<Append(cur, LF)>> \o splitlines_lf(Tail(s), <<>>)
    ELSE splitlines_lf(Tail(s), Append(cur, Head(s)))

RECURSIVE splitlines(_, _)
splitlines(s, cur) ==
    IF s = <<>> THEN (IF cur = <<>> THEN <<>> ELSE <<cur>>)
    ELSE IF Head(s) = CR /\ Len(s) >= 2 /\ s[2] = LF
         THEN <<cur \o <<CR, LF>>>> \o splitlines(SubSeq(s, 3, Len(s)), <<>>)
    ELSE IF Head(s) \in LineBoundaries
         THEN <<Append(cur, Head(s))>> \o splitlines(Tail(s), <<>>)
    ELSE splitlines(Tail(s), Append(cur, Head(s)))

\* re.sub(target, repl, s) for a one-character pattern: every occurrence.
RECURSIVE re_sub_every(_, _, _)
re_sub_every(target, repl, s) ==
    IF s = <<>> THEN <<>>
    ELSE (IF Head(s) = target THEN repl ELSE <<Head(s)>>)
         \o re_sub_every(target, repl, Tail(s))

\* A plausible slip: re.sub(..., count=1), only the first occurrence.
RECURSIVE re_sub_first(_, _, _)
re_sub_first(target, repl, s) ==
    IF s = <<>> THEN <<>>
    ELSE IF Head(s) = target THEN repl \o Tail(s)
    ELSE <<Head(s)>> \o re_sub_first(target, repl, Tail(s))

re_sub(target, repl, s) == re_sub_every(target, repl, s)

----------------------------------------------------------------------------
(* The random source.  random.random() returns u/DrawDen for a raw draw u  *)
(* in 0..DrawDen-1; random.choice and random.randint take an integer below *)
(* n, any of 0..n-1.  A seeded source is a tape of words, one per draw: a  *)
(* word w is read as the float (w mod DrawDen)/DrawDen or as the integer   *)
(* w mod n.                                                                *)

Unseeded == <<>>

RawDraws == 0 .. (DrawDen - 1)

\* The word of the tape at the k-th draw of the current step (k = 0, 1, ...).
Word(k) == seed[((rngPos + k) % Len(seed)) + 1]

\* The values the k-th draw of the current step can take as the raw draw of
\* random.random().
Draw(k) ==
    IF seed = Unseeded THEN RawDraws
    ELSE {Word(k) % DrawDen}

\* The values the k-th draw of the current step can take when an integer
\* below n is drawn.
DrawBelow(k, n) ==
    IF seed = Unseeded THEN 0 .. (n - 1)
    ELSE {Word(k)}

\* The values the next n draws of random.random() can take, as a sequence.
DrawSeqs(n) ==
    IF seed = Unseeded THEN [1 .. n -> RawDraws]
    ELSE {[k \in 1 .. n |-> Word(k - 1) % DrawDen]}

\* The source after a step that consumed n draws: its place on the tape.
Consumed(n) == IF seed = Unseeded THEN rngPos ELSE (rngPos + n) % Len(seed)

\* A plausible slip: random.random() <= s / div.
FiresOrEqual(u, s, div) == u * s[2] * div <= s[1] * DrawDen

\* random.random() < s / div, for s = <<num, den>>.
Fires(u, s, div) == u * s[2] * div < s[1] * DrawDen

\* random.random() < 0.5
Half(v) == 2 * v < DrawDen

\* The integer below n that the draw r selects.
randbelow(n, r) == r % n

\* random.randint(a, b), both ends included.
randint(a, b, r) == a + randbelow(b - a + 1, r)

\* random.choice(xs)
choice(xs, r) == xs[randbelow(Len(xs), r) + 1]

----------------------------------------------------------------------------
(* make_dirty: the rule table of the character-substitution phase.         *)

RulesInSource == <<
    [target |-> Numero,
     variants |-> << <<"N">>, <<"N", "deg">>, <<"N", "ord">>,
                     <<"cyr_M", CyrE>>, <<"cyr_N", CyrE>>, <<"cyr_L", CyrE>>,
                     <<"cyr_N">>, <<"cyr_N", CyrO>>, <<"cyr_L", CyrO>>,
                     <<"cyr_M", CyrO>>, <<Numero>> >>],
    [target |-> "0",   variants |-> << <<"0">>, <<"O">>, <<"o">> >>],
    [target |-> "1",   variants |-> << <<"1">>, <<"I">>, <<"l">>, <<"i">> >>],
    [target |-> "2",   variants |-> << <<"2">>, <<"Z">>, <<"z">> >>],
    [target |-> CyrI,  variants |-> << <<"i">>, <<"I">>, <<"l">>, <<"1">> >>],
    [target |-> CyrO,  variants |-> << <<"o">>, <<"O">>, <<"0">> >>],
    [target |-> CyrE,  variants |-> << <<"e">>, <<"E">>, <<"3">> >>],
    [target |-> CyrA,  variants |-> << <<"a">>, <<"A">>, <<"4">> >>],
    [target |-> CyrZ,  variants |-> << <<"s">>, <<"S">>, <<"5">> >>],
    [target |-> CyrT,  variants |-> << <<"t">>, <<"T">>, <<"7">> >>],
    [target |-> CyrYa, variants |-> << <<"g">>, <<"G">>, <<"9">> >>],
    [target |-> CyrV,  variants |-> << <<"b">>, <<"B">>, <<"8">> >>],
    [target |-> CyrI,  variants |-> << <<"l">>, <<"L">>, <<"1">> >>] >>

\* The rule list as the specification gives it: the letters are Latin
\* look-alikes of the Cyrillic ones above.
RulesInSpec == <<
    [target |-> Numero,
     variants |-> << <<"N">>, <<"N", "deg">>, <<"N", "ord">>,
                     <<"cyr_M", CyrE>>, <<"cyr_N", CyrE>>, <<"cyr_L", CyrE>>,
                     <<"cyr_N">>, <<"cyr_N", CyrO>>, <<"cyr_L", CyrO>>,
                     <<"cyr_M", CyrO>>, <<Numero>> >>],
    [target |-> "0", variants |-> << <<"0">>, <<"O">>, <<"o">> >>],
    [target |-> "1", variants |-> << <<"1">>, <<"I">>, <<"l">>, <<"i">> >>],
    [target |-> "2", variants |-> << <<"2">>, <<"Z">>, <<"z">> >>],
    [target |-> "i", variants |-> << <<"i">>, <<"I">>, <<"l">>, <<"1">> >>],
    [target |-> "o", variants |-> << <<"o">>, <<"O">>, <<"0">> >>],
    [target |-> "e", variants |-> << <<"e">>, <<"E">>, <<"3">> >>],
    [target |-> "a", variants |-> << <<"a">>, <<"A">>, <<"4">> >>],
    [target |-> "s", variants |-> << <<"s">>, <<"S">>, <<"5">> >>],
    [target |-> "t", variants |-> << <<"t">>, <<"T">>, <<"7">> >>],
    [target |-> "g", variants |-> << <<"g">>, <<"G">>, <<"9">> >>],
    [target |-> "b", variants |-> << <<"b">>, <<"B">>, <<"8">> >>],
    [target |-> "l", variants |-> << <<"l">>, <<"L">>, <<"1">> >>] >>

Rules == RulesInSource

\* 'abcdefghijklmnopqrstuvwxyz0123456789'
InsertChars ==
    << "a", "b", "c", "d", "e", "f", "g", "h", "i", "j", "k", "l", "m",
       "n", "o", "p", "q", "r", "s", "t", "u", "v", "w", "x", "y", "z",
       "0", "1", "2", "3", "4", "5", "6", "7", "8", "9" >>

NoSub == [rule |-> 0, before |-> <<>>, fired |-> FALSE, pick |-> <<>>]

\* Nothing done yet: the numbers of swaps, splits and joins, the cut of the
\* split as <<[word, index]>>, and the words a firing split trial passed by.
NoActs == [swap |-> 0, split |-> 0, join |-> 0, cut |-> <<>>, skipped |-> {}]

----------------------------------------------------------------------------
(* make_dirty: control.  The word phases are for-loops over range(n) with  *)
(* n fixed when the loop starts; a loop whose range is empty is skipped.   *)

\* The first loop, from phase p on, whose range is not empty for the word
\* list ws; "rejoin" (line 121) when none is.
LoopFrom(p, ws) ==
    IF p = "edit" /\ Len(ws) > 0 THEN "edit"
    ELSE IF p \in {"edit", "swap"} /\ Len(ws) > 1 THEN "swap"
    ELSE IF p \in {"edit", "swap", "split"} /\ Len(ws) > 0 THEN "split"
    ELSE IF p \in {"edit", "swap", "split", "join"} /\ Len(ws) > 1 THEN "join"
    ELSE "rejoin"

\* A plausible slip: the split loop written before the swap loop.
AfterSlip(p) ==
    CASE p = "edit"  -> "split"
      [] p = "split" -> "swap"
      [] p = "swap"  -> "join"
      [] p = "join"  -> "rejoin"

\* The phase after the loop p.
After(p) ==
    CASE p = "edit"  -> "swap"
      [] p = "swap"  -> "split"
      [] p = "split" -> "join"
      [] p = "join"  -> "rejoin"

\* word[:index] + word[index + 1:]
RemoveAt(word, index) ==
    SubSeq(word, 1, index) \o SubSeq(word, index + 2, Len(word))

\* word[:index] + char + word[index:]
InsertAt(word, index, char) ==
    SubSeq(word, 1, index) \o char \o SubSeq(word, index + 1, Len(word))

\* del xs[k + 1] for the 0-based index k + 1, after xs[k] = xs[k] + xs[k + 1]
JoinAt(xs, k) ==
    SubSeq(xs, 1, k) \o <<xs[k + 1] \o xs[k + 2]>> \o SubSeq(xs, k + 3, Len(xs))

\* xs[k], xs[k + 1] = xs[k + 1], xs[k] for the 0-based index k
SwapAt(xs, k) ==
    [xs EXCEPT ![k + 1] = xs[k + 2], ![k + 2] = xs[k + 1]]

\* A plausible slip: len(word) < 1.
TooShortSlip(word) == Len(word) < 1

\* line 107: len(word) < 2
TooShort(word) == Len(word) < 2

otherVars == <<genVars, srvVars>>

----------------------------------------------------------------------------
(* make_dirty: the actions.                                                *)

\* The for-loop of line 16 takes line number n of ls, or, when there is
\* none, line 132 returns '\n'.join(done) and the locals are gone.
LoopLines(ls, n, done) ==
    IF n <= Len(ls)
    THEN /\ lines' = ls
         /\ lineNo' = n
         /\ dirty_lines' = done
         /\ line' = ls[n]
         /\ pc' = "sub"
         /\ idx' = 1
         /\ UNCHANGED result
    ELSE /\ result' = join(<<LF>>, done)
         /\ pc' = "ret"
         /\ lines' = <<>>
         /\ lineNo' = 0
         /\ dirty_lines' = <<>>
         /\ line' = <<>>
         /\ idx' = 0

\* lines 13-16: split the text, start with an empty list, enter the loop.
MakeDirtyEnter ==
    /\ pc = "call"
    /\ LoopLines(splitlines(text, <<>>), 1, <<>>)
    /\ words' = <<>>
    /\ UNCHANGED <<text, strength, sub, acted, rngVars, otherVars>>

\* lines 17-79: rule idx of the character-substitution phase.
Substitute ==
    /\ pc = "sub"
    /\ \E u \in Draw(0) :
       \E r \in (IF Fires(u, strength, 1)
                THEN DrawBelow(1, Len(Rules[idx].variants)) ELSE {0}) :
         LET rule == Rules[idx]
             fire == Fires(u, strength, 1)
             repl == choice(rule.variants, r)
         IN  /\ line' = IF fire THEN re_sub(rule.target, repl, line) ELSE line
             /\ sub' = [rule |-> idx, before |-> line, fired |-> fire,
                        pick |-> IF fire THEN repl ELSE <<>>]
             /\ rngPos' = Consumed(IF fire THEN 2 ELSE 1)
    /\ IF idx < Len(Rules)
       THEN idx' = idx + 1 /\ pc' = "sub"
       ELSE idx' = 0 /\ pc' = "tokenize"
    /\ UNCHANGED <<text, strength, lines, lineNo, dirty_lines, words, result, acted, seed,
                   otherVars>>

\* line 82: words = line.split()
Tokenize ==
    /\ pc = "tokenize"
    /\ words' = split(line, <<>>)
    /\ pc' = LoopFrom("edit", words')
    /\ idx' = 0
    /\ sub' = NoSub
    /\ UNCHANGED <<text, strength, lines, lineNo, dirty_lines, line, result, acted, rngVars,
                   otherVars>>

\* The loop p at index idx goes on, or is left (its range is n long).
Advance(p, n, ws) ==
    IF idx + 1 < n
    THEN idx' = idx + 1 /\ pc' = p
    ELSE idx' = 0 /\ pc' = LoopFrom(After(p), ws)

\* A plausible slip: no break, the loop goes on after it has acted.
BreakSlip(p, n, ws) == Advance(p, n, ws)

\* break: the loop p is left.
Break(p, n, ws) == idx' = 0 /\ pc' = LoopFrom(After(p), ws)

\* lines 83-95: one iteration of the per-word character edit.
EditWord ==
    /\ pc = "edit"
    /\ \E u \in Draw(0) : \E v \in (IF Fires(u, strength, 1) THEN Draw(1) ELSE {0}) :
       \E r \in (IF ~Fires(u, strength, 1) THEN {0}
                ELSE IF ~Half(v) THEN DrawBelow(2, Len(words[idx + 1]) + 1)
                ELSE IF Len(words[idx + 1]) > 0 THEN DrawBelow(2, Len(words[idx + 1]))
                ELSE {0}) :
       \E c \in (IF Fires(u, strength, 1) /\ ~Half(v)
                THEN DrawBelow(3, Len(InsertChars)) ELSE {0}) :
         LET word == words[idx + 1]
             fire == Fires(u, strength, 1)
         IN  IF fire /\ Half(v) /\ Len(word) = 0
             THEN \* random.randint(0, -1) raises ValueError
                  /\ pc' = "raised"
                  /\ rngPos' = Consumed(2)
                  /\ UNCHANGED <<words, idx>>
             ELSE /\ words' =
                       IF ~fire THEN words
                       ELSE IF Half(v)
                       THEN [words EXCEPT ![idx + 1] =
                                RemoveAt(word, randint(0, Len(word) - 1, r))]
                       ELSE [words EXCEPT ![idx + 1] =
                                InsertAt(word, randint(0, Len(word), r),
                                         <<choice(InsertChars, c)>>)]
                  /\ rngPos' = Consumed(IF ~fire THEN 1 ELSE IF Half(v) THEN 3 ELSE 4)
                  /\ Advance("edit", Len(words), words')
    /\ UNCHANGED <<text, strength, lines, lineNo, dirty_lines, line, result, sub, acted, seed,
                   otherVars>>

\* lines 98-101: one iteration of the adjacent-word swap.
SwapStep ==
    /\ pc = "swap"
    /\ \E u \in Draw(0) :
         IF Fires(u, strength, 10)
         THEN /\ words' = SwapAt(words, idx)
              /\ acted' = [acted EXCEPT !.swap = @ + 1]
              /\ Break("swap", Len(words) - 1, words')
         ELSE /\ UNCHANGED <<words, acted>>
              /\ Advance("swap", Len(words) - 1, words)
    /\ rngPos' = Consumed(1)
    /\ UNCHANGED <<text, strength, lines, lineNo, dirty_lines, line, result, sub, seed, otherVars>>

\* lines 104-111: one iteration of the word split.
SplitStep ==
    /\ pc = "split"
    /\ \E u \in Draw(0) :
       \E r \in (IF Fires(u, strength, 1) /\ ~TooShort(words[idx + 1])
                     /\ Len(words[idx + 1]) - 1 >= 1
                THEN DrawBelow(1, Len(words[idx + 1]) - 1) ELSE {0}) :
         LET word == words[idx + 1]
             fire == Fires(u, strength, 1)
         IN
         IF fire /\ ~TooShort(word) /\ Len(word) - 1 < 1
         THEN \* random.randint(1, 0) raises ValueError
              /\ pc' = "raised"
              /\ rngPos' = Consumed(1)
              /\ UNCHANGED <<words, idx, acted>>
         ELSE IF fire /\ ~TooShort(word)
         THEN LET index == randint(1, Len(word) - 1, r) IN
              /\ words' = [words EXCEPT ![idx + 1] = InsertAt(word, index, <<SP>>)]
              /\ acted' = [acted EXCEPT !.split = @ + 1,
                                        !.cut = <<[word |-> word, index |-> index]>>]
              /\ Break("split", Len(words), words')
              /\ rngPos' = Consumed(2)
         ELSE /\ UNCHANGED words
              /\ acted' = IF fire THEN [acted EXCEPT !.skipped = @ \cup {word}] ELSE acted
              /\ Advance("split", Len(words), words)
              /\ rngPos' = Consumed(1)
    /\ UNCHANGED <<text, strength, lines, lineNo, dirty_lines, line, result, sub, seed, otherVars>>

\* lines 114-118: one iteration of the word join.
JoinStep ==
    /\ pc = "join"
    /\ \E u \in Draw(0) :
         IF Fires(u, strength, 1)
         THEN /\ words' = JoinAt(words, idx)
              /\ acted' = [acted EXCEPT !.join = @ + 1]
              /\ Break("join", Len(words) - 1, words')
         ELSE /\ UNCHANGED <<words, acted>>
              /\ Advance("join", Len(words) - 1, words)
    /\ rngPos' = Consumed(1)
    /\ UNCHANGED <<text, strength, lines, lineNo, dirty_lines, line, result, sub, seed, otherVars>>

\* lines 121 and 124: join the words and tokenize the line again.
Rejoin ==
    /\ pc = "rejoin"
    /\ line' = join(<<SP>>, words)
    /\ words' = split(line', <<>>)
    /\ idx' = 0
    /\ pc' = "del"
    /\ acted' = NoActs
    /\ UNCHANGED <<text, strength, lines, lineNo, dirty_lines, result, sub, rngVars, otherVars>>

\* lines 125-127: the word-deletion loop, one draw per word.
DeleteWords ==
    /\ pc = "del"
    /\ \E us \in DrawSeqs(Len(words)) :
         words' = [k \in 1 .. Len(words) |->
                      IF Fires(us[k], strength, 10) THEN <<>> ELSE words[k]]
    /\ pc' = "append"
    /\ rngPos' = Consumed(Len(words))
    /\ UNCHANGED <<text, strength, lines, lineNo, dirty_lines, line, idx, result, sub, acted,
                   seed, otherVars>>

\* lines 128-130, and the loop's next turn: the line is done.
AppendLine ==
    /\ pc = "append"
    /\ LoopLines(lines, lineNo + 1, Append(dirty_lines, join(<<SP>>, words)))
    /\ words' = <<>>
    /\ UNCHANGED <<text, strength, sub, acted, rngVars, otherVars>>

MakeDirtyStep ==
    \/ MakeDirtyEnter
    \/ Substitute
    \/ Tokenize
    \/ EditWord
    \/ SwapStep
    \/ SplitStep
    \/ JoinStep
    \/ Rejoin
    \/ DeleteWords
    \/ AppendLine

----------------------------------------------------------------------------
(* The specification of make_dirty alone: any text up to MaxLen characters *)
(* over Alphabet and the sample texts, with any severity n/SevDen and any  *)
(* draws; and the longer texts, with any severity n/SevDen and the draws   *)
(* of any tape of period up to MaxTape.                                    *)

Alphabet == {CyrI, "i", SP, LF}

RECURSIVE StringsUpTo(_)
StringsUpTo(n) ==
    IF n = 0 THEN {<<>>}
    ELSE LET shorter == StringsUpTo(n - 1) IN
         shorter \cup {Append(s, c) : s \in {t \in shorter : Len(t) = n - 1}, c \in Alphabet}

\* Texts beyond MaxLen: two numero signs, a target of two rules around a
\* letter that is no target, a line that ends the text, a two-word line,
\* three lines ended by CR LF and a lone CR, and a form feed before a line.
SampleTexts ==
    { <<Numero, Numero>>,
      <<CyrI, "i", CyrI>>,
      <<CyrI, LF>>,
      <<"i", SP, "o">>,
      <<"i", CR, LF, CR, "i">>,
      <<FF, "i">> }

\* Every digit that is a target alone, and every Cyrillic target beside
\* the Latin letter that looks like it.
LookAlikeTexts ==
    { <<"0">>, <<"1">>, <<"2">>,
      <<CyrO, "o">>, <<CyrE, "e">>, <<CyrA, "a">>, <<CyrZ, "s">>,
      <<CyrT, "t">>, <<CyrYa, "g">>, <<CyrV, "b">>, <<CyrI, "l">> }

Texts == StringsUpTo(MaxLen) \cup SampleTexts \cup LookAlikeTexts

\* A word of all the targets beside a word of the Latin letters that look
\* like them.
AllTargets ==
    <<Numero, "0", "1", "2", CyrI, CyrO, CyrE, CyrA, CyrZ, CyrT, CyrYa, CyrV, SP,
      "i", "o", "e", "a", "s", "t", "g", "b", "l">>

\* Lines of three and of four words: 'abc de fgh' and 'ab c de f'.
ThreeWords == <<"a", "b", "c", SP, "d", "e", SP, "f", "g", "h">>
FourWords  == <<"a", "b", SP, "c", SP, "d", "e", SP, "f">>

\* The longer texts, the last one of two lines.
LongTexts == {AllTargets, ThreeWords, FourWords, ThreeWords \o <<LF>> \o FourWords}

\* The tapes of draws for the longer texts.
Tapes == UNION {[1 .. n -> RawDraws] : n \in 1 .. MaxTape}

Severities == {<<n, SevDen>> : n \in 0 .. SevDen}

\* The state of a JSON file: not written yet, or written with some data.
NotRun == [status |-> "not run", data |-> <<>>]

json_dump(data) == [status |-> "written", data |-> data]

IdleGen ==
    /\ refDir = <<>>
    /\ outFs = <<>>
    /\ outDirs = {}
    /\ gpc = "off"
    /\ dirtiness = <<>>
    /\ fileNo = 0
    /\ level = 0
    /\ runs = <<>>
    /\ firstFs = <<>>
    /\ written = <<>>
    /\ docCorpus = NotRun
    /\ lineCorpus = NotRun

IdleSrv ==
    /\ req = <<>>
    /\ tmp = <<>>

IdleMD ==
    /\ lines = <<>>
    /\ lineNo = 0
    /\ dirty_lines = <<>>
    /\ line = <<>>
    /\ words = <<>>
    /\ idx = 0
    /\ result = <<>>
    /\ sub = NoSub
    /\ acted = NoActs

Init ==
    /\ \/ text \in Texts /\ seed = Unseeded
       \/ text \in LongTexts /\ seed \in Tapes
    /\ strength \in Severities
    /\ pc = "call"
    /\ IdleMD
    /\ rngPos = 0
    /\ IdleGen
    /\ IdleSrv

Next == MakeDirtyStep

Spec == Init /\ [][Next]_vars

----------------------------------------------------------------------------
(* Files and directories.  A file name is the sequence of its parts        *)
(* between dots: "a.txt" is <<"a", "txt">>, ".txt" is <<"", "txt">> and    *)
(* ".txt.txt" is <<"", "txt", "txt">>.  The variant file example_n.txt of  *)
(* the sub-directory dir of result_folder has the path <<dir, n>>.         *)

MaxLevels == 2   \* num_examples of a run is in 0..MaxLevels (or that of an example)
MaxRuns   == 2   \* generation runs of one session

\* filename.endswith(".txt")
endswith_txt(name) == Len(name) >= 2 /\ name[Len(name)] = "txt"

\* os.path.splitext(filename)[0]: the last dot starts the extension unless
\* only dots come before it, and then the name has no extension.
splitext(name) ==
    IF Len(name) >= 2 /\ \E k \in 1 .. (Len(name) - 1) : name[k] # ""
    THEN SubSeq(name, 1, Len(name) - 1)
    ELSE name

\* file.read() of a file opened in text mode: CR LF and CR are read as LF.
RECURSIVE read(_)
read(data) ==
    IF data = <<>> THEN <<>>
    ELSE IF Head(data) = CR
         THEN <<LF>> \o read(IF Len(data) >= 2 /\ data[2] = LF
                             THEN SubSeq(data, 3, Len(data)) ELSE Tail(data))
         ELSE <<Head(data)>> \o read(Tail(data))

\* The lines of a text that was read in text mode, each with its LF.
RECURSIVE textlines(_, _)
textlines(s, cur) ==
    IF s = <<>> THEN (IF cur = <<>> THEN <<>> ELSE <<cur>>)
    ELSE IF Head(s) = LF THEN <<Append(cur, LF)>> \o textlines(Tail(s), <<>>)
    ELSE textlines(Tail(s), Append(cur, Head(s)))

\* file.readlines()
readlines(data) == textlines(read(data), <<>>)

\* s.lstrip()
RECURSIVE lstrip(_)
lstrip(s) ==
    IF s # <<>> /\ Head(s) \in Whitespace THEN lstrip(Tail(s)) ELSE s

\* s.rstrip()
RECURSIVE rstrip(_)
rstrip(s) ==
    IF s # <<>> /\ s[Len(s)] \in Whitespace
    THEN rstrip(SubSeq(s, 1, Len(s) - 1)) ELSE s

\* s.strip()
strip(s) == lstrip(rstrip(s))

\* A plausible slip: the directory is made afresh, without its old files.
makedirs_fresh(fs, dir) == [p \in {q \in DOMAIN fs : q[1] # dir} |-> fs[p]]

\* os.makedirs(dir) when dir does not exist: the files are as they were.
makedirs(fs, dir) == fs

\* open(path, 'a').write(data): a plausible slip for 'w'.
AppendFile(fs, path, data) ==
    IF path \in DOMAIN fs THEN (path :> (fs[path] \o data)) @@ fs
    ELSE (path :> data) @@ fs

\* open(path, 'w').write(data): the file is made or overwritten.
WriteFile(fs, path, data) == (path :> data) @@ fs

\* The numbers of S in ascending order.
RECURSIVE Ascending(_)
Ascending(S) ==
    IF S = {} THEN <<>>
    ELSE LET m == CHOOSE x \in S : \A y \in S : x <= y
         IN  <<m>> \o Ascending(S \ {m})

\* The sequences that hold every member of S once.
Listings(S) ==
    {xs \in [1 .. Cardinality(S) -> S] :
        \A i, j \in 1 .. Cardinality(S) : i # j => xs[i] # xs[j]}

\* os.listdir(dir) for a directory of result_folder: the ordinals n of its
\* files example_n.txt, in any order; the set of the lists it may return.
listdir(fs, dir) == Listings({p[2] : p \in {q \in DOMAIN fs : q[1] = dir}})

----------------------------------------------------------------------------
(* generate_data_examples.                                                 *)

\* A plausible slip: np.linspace(lo, hi, n, endpoint=False).
linspace_open(lo, hi, n) ==
    [k \in 1 .. n |-> <<lo[1] * n + (k - 1) * (hi[1] - lo[1]), lo[2] * n>>]

\* np.linspace(lo, hi, n) for lo and hi of one denominator: n values, the
\* k-th is lo + (k - 1) * (hi - lo) / (n - 1); [lo] when n = 1.
linspace(lo, hi, n) ==
    [k \in 1 .. n |->
        IF n = 1 THEN lo
        ELSE <<lo[1] * (n - 1) + (k - 1) * (hi[1] - lo[1]), lo[2] * (n - 1)>>]

\* The documents of target_folder by position, and those the loops take.
IsDocument(k) == endswith_txt(refDir[k].name)

Documents == {k \in 1 .. Len(refDir) : IsDocument(k)}

\* os.path.join(result_folder, os.path.splitext(filename)[0])
ResultFolder(k) == splitext(refDir[k].name)

\* The places of the tape a run may start at.  Nothing seeds the random
\* source (line 3 is a bare import): a run made in the process of the run
\* before draws on from where that run stopped; a run made in a new process
\* has a source of its own, which may give it the draws the first run had.
RunStarts == IF runs = <<>> THEN {rngPos} ELSE {rngPos, runs[1].at}

\* lines 135-139: a run starts.  `at` is the place of the tape it starts at.
GenStart(n, lo, hi) ==
    /\ gpc = "idle"
    /\ Len(runs) < MaxRuns
    /\ dirtiness' = linspace(lo, hi, n)
    /\ \E p \in RunStarts :
         /\ rngPos' = p
         /\ runs' = Append(runs, [num_examples |-> n, min_dirty |-> lo,
                                  max_dirty |-> hi, at |-> p])
    /\ fileNo' = 0
    /\ level' = 0
    /\ written' = <<>>
    /\ gpc' = "listdir"
    /\ UNCHANGED <<mdVars, seed, refDir, outFs, outDirs, firstFs, docCorpus, lineCorpus, srvVars>>

\* lines 141-150: the next name of os.listdir(target_folder); a document is
\* read and its result folder made.  After the last name the run is over.
GenNextFile ==
    /\ gpc = "listdir"
    /\ IF fileNo = Len(refDir)
       THEN /\ gpc' = "idle"
            /\ firstFs' = IF Len(runs) = 1 THEN outFs ELSE firstFs
            /\ UNCHANGED <<fileNo, outFs, outDirs>>
       ELSE /\ fileNo' = fileNo + 1
            /\ IF IsDocument(fileNo + 1)
               THEN /\ outDirs' = outDirs \cup {ResultFolder(fileNo + 1)}
                    /\ outFs' = makedirs(outFs, ResultFolder(fileNo + 1))
                    /\ gpc' = IF Len(dirtiness) > 0 THEN "level" ELSE "listdir"
               ELSE /\ gpc' = "listdir"
                    /\ UNCHANGED <<outFs, outDirs>>
            /\ UNCHANGED firstFs
    /\ level' = 0
    /\ UNCHANGED <<mdVars, rngVars, refDir, dirtiness, runs, written, docCorpus, lineCorpus, srvVars>>

\* lines 152-154: make_dirty is called with the text and the next severity.
GenCall ==
    /\ gpc = "level"
    /\ text' = read(refDir[fileNo].data)
    /\ strength' = dirtiness[level + 1]
    /\ pc' = "call"
    /\ gpc' = "dirty"
    /\ UNCHANGED <<lines, lineNo, dirty_lines, line, words, idx, result, sub, acted, rngVars,
                   refDir, outFs, outDirs, dirtiness, fileNo, level, runs, firstFs,
                   written, docCorpus, lineCorpus, srvVars>>

\* lines 156-158: make_dirty has returned; example_{i+1}.txt is written.
GenWrite ==
    /\ gpc = "dirty"
    /\ pc = "ret"
    /\ outFs' = WriteFile(outFs, <<ResultFolder(fileNo), level + 1>>, result)
    /\ written' = (<<fileNo, level + 1>> :> result) @@ written
    /\ level' = level + 1
    /\ gpc' = IF level + 1 < Len(dirtiness) THEN "level" ELSE "listdir"
    /\ pc' = "idle"
    /\ text' = <<>>
    /\ result' = <<>>
    /\ UNCHANGED <<strength, lines, lineNo, dirty_lines, line, words, idx, sub, acted, rngVars,
                   refDir, outDirs, dirtiness, fileNo, runs, firstFs,
                   docCorpus, lineCorpus, srvVars>>

----------------------------------------------------------------------------
(* The assemblers.  data is kept by document and by variant file (`file`   *)
(* is the ordinal of the variant file an entry was made from), in the      *)
(* order the loops append to it.                                           *)

\* The assembler was ended by the error of os.listdir; its file is not written.
IOError == [status |-> "FileNotFoundError", data |-> <<>>]

\* lines 173-179: one {"text", "target"} per variant file of the document,
\* in the order ns of os.listdir.
DocExamples(k, ns) ==
    LET dir == ResultFolder(k)
    IN  [j \in 1 .. Len(ns) |->
            [file |-> ns[j],
             text |-> read(outFs[<<dir, ns[j]>>]), target |-> read(refDir[k].data)]]

\* A plausible slip: itertools.zip_longest(xs, ys, fillvalue='').
RECURSIVE zip_longest(_, _)
zip_longest(xs, ys) ==
    IF xs = <<>> /\ ys = <<>> THEN <<>>
    ELSE <<<<IF xs = <<>> THEN <<>> ELSE Head(xs), IF ys = <<>> THEN <<>> ELSE Head(ys)>>>>
         \o zip_longest(IF xs = <<>> THEN <<>> ELSE Tail(xs),
                        IF ys = <<>> THEN <<>> ELSE Tail(ys))

\* zip(xs, ys): pairs up to the end of the shorter one.
RECURSIVE zip(_, _)
zip(xs, ys) ==
    IF xs = <<>> \/ ys = <<>> THEN <<>>
    ELSE <<<<Head(xs), Head(ys)>>>> \o zip(Tail(xs), Tail(ys))

\* lines 201-202: the examples of one variant file.
LineExamples(original, dirty) ==
    LET pairs == zip(readlines(original), readlines(dirty))
    IN  [j \in 1 .. Len(pairs) |->
            [text |-> strip(pairs[j][2]), target |-> strip(pairs[j][1])]]

\* lines 195-202: the examples of one document, by variant file, in the
\* order ns of os.listdir.
DocLineExamples(k, ns) ==
    LET dir == ResultFolder(k)
    IN  [j \in 1 .. Len(ns) |->
            [file |-> ns[j],
             examples |-> LineExamples(refDir[k].data, outFs[<<dir, ns[j]>>])]]

\* os.listdir(file_result_folder) raises when a document has no folder.
FoldersExist == \A k \in Documents : ResultFolder(k) \in outDirs

\* The documents in the order of os.listdir(target_folder), which refDir is
\* written in.
DocumentList == Ascending(Documents)

\* The order in which the assembler that wrote the entries of a document
\* had its files listed.
ListedFor(entries) == [i \in 1 .. Len(entries) |-> entries[i].file]

\* What os.listdir(file_result_folder) may return for the j-th document of
\* DocumentList: any order of the files, and the order of the last listing
\* when the directory was listed before (no file was written since).
ListingsOf(j) ==
    IF docCorpus.status = "written"
    THEN {ListedFor(docCorpus.data[j].examples)}
    ELSE listdir(outFs, ResultFolder(DocumentList[j]))

\* What the calls of os.listdir(file_result_folder) of one assembler may
\* return, by document; two documents of one directory get one listing.
DirListings ==
    LET docs == DocumentList
        may  == [j \in 1 .. Len(docs) |-> ListingsOf(j)]
        dirs == [j \in 1 .. Len(docs) |-> ResultFolder(docs[j])]
    IN  {ls \in [1 .. Len(docs) -> UNION {may[j] : j \in 1 .. Len(docs)}] :
            \A j \in 1 .. Len(docs) :
                /\ ls[j] \in may[j]
                /\ \A i \in 1 .. Len(docs) : dirs[i] = dirs[j] => ls[i] = ls[j]}

\* create_json_training_file, lines 161-182.
AssembleDocs ==
    /\ gpc = "idle"
    /\ docCorpus = NotRun
    /\ IF FoldersExist
       THEN \E ls \in DirListings :
              docCorpus' = json_dump([j \in 1 .. Len(DocumentList) |->
                  [name |-> refDir[DocumentList[j]].name,
                   examples |-> DocExamples(DocumentList[j], ls[j])]])
       ELSE docCorpus' = IOError
    /\ gpc' = "assembled"
    /\ UNCHANGED <<mdVars, rngVars, refDir, outFs, outDirs, dirtiness, fileNo, level,
                   runs, firstFs, written, lineCorpus, srvVars>>

\* create_json_training_file_per_line, lines 184-205; it is called after
\* create_json_training_file (lines 213-218).
AssembleLines ==
    /\ gpc = "assembled"
    /\ docCorpus # NotRun
    /\ lineCorpus = NotRun
    /\ IF FoldersExist
       THEN \E ls \in DirListings :
              lineCorpus' = json_dump([j \in 1 .. Len(DocumentList) |->
                  [name |-> refDir[DocumentList[j]].name,
                   variants |-> DocLineExamples(DocumentList[j], ls[j])]])
       ELSE lineCorpus' = IOError
    /\ gpc' = "assembled"
    /\ UNCHANGED <<mdVars, rngVars, refDir, outFs, outDirs, dirtiness, fileNo, level,
                   runs, firstFs, written, docCorpus, srvVars>>

----------------------------------------------------------------------------
(* The specification of a session of the corpus tools: generation runs on  *)
(* one reference directory (lines 207-211, any number up to MaxRuns), then *)
(* the assemblers (lines 213-218).  The random source is a seeded one.     *)

Privit == <<"cyr_P", "cyr_r", "cyr_y", CyrV, CyrI, CyrT, SP, "cyr_s", CyrV, CyrI, CyrT>>

TxtA    == <<"a", "txt">>
TxtB    == <<"b", "txt">>
DotTxt  == <<"", "txt">>
DotTxt2 == <<"", "txt", "txt">>

\* The target folders: the files each one holds.
RefFolders ==
    { { [name |-> <<"readme", "md">>, data |-> <<CyrI>>] },
      { [name |-> TxtA, data |-> Privit \o <<LF>>] },
      { [name |-> TxtA, data |-> <<CyrI, SP, Numero, LF, LF>>],
        [name |-> TxtB, data |-> <<"i", CR, LF, CyrI, SP, CyrI>>] },
      { [name |-> DotTxt, data |-> <<CyrI>>],
        [name |-> DotTxt2, data |-> <<Numero, LF>>] } }

\* os.listdir(target_folder): the files of a target folder in any order.
\* The folder is not written to, and every listing of it is this one.
RefDirs == UNION {Listings(folder) : folder \in RefFolders}

\* The tapes of the seeded source.
Seeds == { <<0>>, <<0, 2 * DrawDen + 1, DrawDen - 1>> }

\* The ramp of the specification's example: 5 levels from 0.0 to 1.0.
RampExample == 5

\* The levels of the specification's example of a.txt at severity 0.
LevelsExample == 3

Zero == <<0, SevDen>>
One  == <<SevDen, SevDen>>

\* The arguments a run may have: the first run a ramp from 0 to any
\* severity or one severity for all levels, a later run the ends of the
\* first; num_examples up to MaxLevels,
\* RampExample for the ends 0 and 1 on a directory without documents, and
\* LevelsExample for the ends 0 and 0 on a directory of one document.
RunArgs ==
    { a \in [num_examples : 0 .. Max(MaxLevels, RampExample),
             min_dirty : Severities, max_dirty : Severities] :
        /\ a.min_dirty = Zero \/ a.min_dirty = a.max_dirty
        /\ \/ a.num_examples <= MaxLevels
           \/ /\ a.num_examples = RampExample
              /\ a.min_dirty = Zero /\ a.max_dirty = One
              /\ Documents = {}
           \/ /\ a.num_examples = LevelsExample
              /\ a.min_dirty = Zero /\ a.max_dirty = Zero
              /\ Len(refDir) = 1
        /\ runs # <<>> => (a.min_dirty = runs[1].min_dirty /\ a.max_dirty = runs[1].max_dirty) }

InitGen ==
    /\ refDir \in RefDirs
    /\ seed \in Seeds
    /\ rngPos = 0
    /\ outFs = <<>>
    /\ outDirs = {}
    /\ gpc = "idle"
    /\ dirtiness = <<>>
    /\ fileNo = 0
    /\ level = 0
    /\ runs = <<>>
    /\ firstFs = <<>>
    /\ written = <<>>
    /\ docCorpus = NotRun
    /\ lineCorpus = NotRun
    /\ text = <<>>
    /\ strength = Zero
    /\ pc = "idle"
    /\ IdleMD
    /\ IdleSrv

NextGen ==
    \/ \E a \in RunArgs : GenStart(a.num_examples, a.min_dirty, a.max_dirty)
    \/ GenNextFile
    \/ GenCall
    \/ MakeDirtyStep
    \/ GenWrite
    \/ AssembleDocs
    \/ AssembleLines

SpecGen == InitGen /\ [][NextGen]_vars

----------------------------------------------------------------------------
(* The OCR server and its client.  A file name is the sequence of its      *)
(* parts between dots, as above, and a path is the sequence of its         *)
(* components: "sub/x.jpg" is << <<"sub">>, <<"x", "jpg">> >>.  /tmp is a  *)
(* function from the names of its files to [ino, data]: ino is the number  *)
(* of the request that made the file, data what the file holds.  /tmp is   *)
(* writable and empty before the first request, so that open (line 64) and *)
(* os.remove (line 75) succeed.  A handler runs without interruption       *)
(* except at its await (line 65).                                          *)

NReq == 2   \* requests of one session

\* line 56
allowed_extensions == {"png", "jpg", "jpeg"}

\* str.lower() on the parts the uploads have.
lower(part) ==
    CASE part = "PNG"  -> "png"
      [] part = "JPG"  -> "jpg"
      [] part = "JPEG" -> "jpeg"
      [] OTHER         -> part

\* line 57: file.filename.split(".")[-1].lower()
file_extension(name) == lower(name[Len(name)])

ScanPng   == <<"scan", "png">>
PhotoJPEG == <<"photo", "JPEG">>
DocPdf    == <<"doc", "pdf">>
BarePng   == <<"png">>
XJpg      == <<"x", "jpg">>

\* The files the user gives the client: scan.png, photo.JPEG, doc.pdf,
\* png, sub/x.jpg and up.png/doc.pdf.
ImagePaths ==
    { <<ScanPng>>, <<PhotoJPEG>>, <<DocPdf>>, <<BarePng>>,
      << <<"sub">>, XJpg >>, << <<"up", "png">>, DocPdf >> }

\* The file name of the multipart part that requests.post(..., files=...)
\* sends for an open file: the last component of the file's path.
basename(path) == path[Len(path)]

\* What an upload holds: the image of a page, or bytes that are no image.
Images == {"page1", "page2", "broken"}

\* The text OCR gives for the image of a page.
TextOf(image) == IF image = "page1" THEN "text1" ELSE "text2"

exists(fs, name) == name \in DOMAIN fs

\* open(temp_file_path, "wb"): the file is emptied, or made by request r.
open_wb(fs, name, r) ==
    IF exists(fs, name) THEN [fs EXCEPT ![name].data = ""]
    ELSE (name :> [ino |-> r, data |-> ""]) @@ fs

\* temp_file.write(data) through the file opened as fd: it reaches the
\* entry of the name only while that entry is still the opened file.
write(fs, name, fd, data) ==
    IF exists(fs, name) /\ fs[name].ino = fd THEN [fs EXCEPT ![name].data = data]
    ELSE fs

\* os.remove(temp_file_path)
remove(fs, name) == [n \in DOMAIN fs \ {name} |-> fs[n]]

\* ocr_instance.recognize_file(path): Preprocessor.load_image raises when
\* the file is missing or is no image.
recognize_file(fs, name) ==
    IF ~exists(fs, name) THEN [ok |-> FALSE, value |-> "Image file not found"]
    ELSE IF fs[name].data \notin {"page1", "page2"}
         THEN [ok |-> FALSE, value |-> "Could not load image"]
         ELSE [ok |-> TRUE, value |-> TextOf(fs[name].data)]

NoBody == [kind |-> "", value |-> ""]

NoShow == [kind |-> "", status |-> 0, value |-> ""]

NoRequest ==
    [pc |-> "none", filename |-> <<>>, image |-> "", fd |-> 0, ocr |-> FALSE,
     saw |-> "", failed |-> "", status |-> 0, body |-> NoBody, shown |-> NoShow]

\* The response of a handler that returned a dict: FastAPI answers 200.
Returns(r, kind, value, failed, ocr) ==
    [req[r] EXCEPT !.pc = "responded", !.status = 200,
                   !.body = [kind |-> kind, value |-> value],
                   !.failed = failed, !.ocr = ocr]

\* client.py lines 9-11: the client opens the file at path and posts it;
\* the upload carries the file's base name and its bytes.
ClientPost(r, path, image) ==
    /\ req[r].pc = "none"
    /\ req' = [req EXCEPT ![r] = [NoRequest EXCEPT !.pc = "posted",
                                                  !.filename = basename(path),
                                                  !.image = image]]
    /\ UNCHANGED <<mdVars, rngVars, genVars, tmp>>

\* server.py lines 56-65, up to the await: the extension is checked and the
\* temporary file opened.
ServerReceive(r) ==
    LET name == req[r].filename IN
    /\ req[r].pc = "posted"
    /\ IF file_extension(name) \notin allowed_extensions
       THEN /\ req' = [req EXCEPT ![r] = Returns(r, "error", "Unsupported file type", "", FALSE)]
            /\ tmp' = tmp
       ELSE /\ tmp' = open_wb(tmp, name, r)
            /\ req' = [req EXCEPT ![r].pc = "reading",
                                  ![r].fd = open_wb(tmp, name, r)[name].ino]
    /\ UNCHANGED <<mdVars, rngVars, genVars>>

\* server.py lines 65-75, from the await on: the upload is written, OCR
\* runs on the path, the answer is made and the path removed if it exists.
ServerResume(r) ==
    LET name == req[r].filename
        fs   == write(tmp, name, req[r].fd, req[r].image)
        out  == recognize_file(fs, name)
    IN  /\ req[r].pc = "reading"
        /\ req' = [req EXCEPT ![r] =
                     [(IF out.ok THEN Returns(r, "text", out.value, "none", TRUE)
                       ELSE Returns(r, "error", out.value, "ocr", TRUE))
                      EXCEPT !.saw = IF exists(fs, name) THEN fs[name].data ELSE "no file"]]
        /\ tmp' = IF exists(fs, name) THEN remove(fs, name) ELSE fs
        /\ UNCHANGED <<mdVars, rngVars, genVars>>

\* client.py lines 14-17: what the client gives the user.
ClientShow(r) ==
    /\ req[r].pc = "responded"
    /\ req' = [req EXCEPT ![r].pc = "shown",
                          ![r].shown =
                             IF req[r].status = 200
                             THEN IF req[r].body.kind = "text"
                                  THEN [kind |-> "text", status |-> 200, value |-> req[r].body.value]
                                  ELSE [kind |-> "No text found", status |-> 200, value |-> ""]
                             ELSE [kind |-> "Error", status |-> req[r].status,
                                   value |-> req[r].body.value]]
    /\ UNCHANGED <<mdVars, rngVars, genVars, tmp>>

InitSrv ==
    /\ req = [r \in 1 .. NReq |-> NoRequest]
    /\ tmp = <<>>
    /\ text = <<>>
    /\ strength = Zero
    /\ pc = "idle"
    /\ IdleMD
    /\ seed = Unseeded
    /\ rngPos = 0
    /\ IdleGen

NextSrv ==
    \E r \in 1 .. NReq :
        \/ \E path \in ImagePaths, image \in Images : ClientPost(r, path, image)
        \/ ServerReceive(r)
        \/ ServerResume(r)
        \/ ClientShow(r)

SpecSrv == InitSrv /\ [][NextSrv]_vars

----------------------------------------------------------------------------
(* Operators the properties below are stated with.                         *)

\* The number of positions before p at which s holds the character t.
OccBefore(s, t, p) == Cardinality({q \in 1 .. (p - 1) : s[q] = t})

\* Where the image of position p of `before` starts in `after`, when every
\* t before it became cand.
ImageAt(before, t, cand, p) == p + OccBefore(before, t, p) * (Len(cand) - 1)

\* `after` is `before` with every occurrence of the character t replaced by
\* the string cand and every other character kept in place.
IsSubstitution(before, after, t, cand) ==
    /\ Len(after) = Len(before)
                    + OccBefore(before, t, Len(before) + 1) * (Len(cand) - 1)
    /\ \A p \in 1 .. Len(before) :
         LET at == ImageAt(before, t, cand, p) IN
         IF before[p] = t
         THEN SubSeq(after, at, at + Len(cand) - 1) = cand
         ELSE after[at] = before[p]

SeqRange(xs) == {xs[k] : k \in 1 .. Len(xs)}

\* The text a scanner makes of s that writes one LF per line boundary (CR LF
\* is one boundary), one space between two words of a line and nothing for
\* other whitespace; `state` is "start" (no word on this line yet), "word"
\* or "gap" (whitespace after a word).  With keepLast a boundary that ends
\* the text is written as LF too, without it that boundary is dropped.
RECURSIVE Normalized(_, _, _)
Normalized(s, state, keepLast) ==
    IF s = <<>> THEN <<>>
    ELSE LET crlf == Head(s) = CR /\ Len(s) >= 2 /\ s[2] = LF
             rest == IF crlf THEN SubSeq(s, 3, Len(s)) ELSE Tail(s)
         IN  IF crlf \/ Head(s) \in LineBoundaries
             THEN (IF rest = <<>> /\ ~keepLast THEN <<>> ELSE <<LF>>)
                  \o Normalized(rest, "start", keepLast)
             ELSE IF Head(s) \in Whitespace
             THEN Normalized(rest, IF state = "start" THEN "start" ELSE "gap", keepLast)
             ELSE (IF state = "gap" THEN <<SP>> ELSE <<>>) \o <<Head(s)>>
                  \o Normalized(rest, "word", keepLast)

Returned == pc = "ret"

----------------------------------------------------------------------------
(* C1.  Severity 0.                                                        *)

\* C1 as stated: at severity exactly 0, whatever the draws, make_dirty
\* returns the input with every line ending written as LF and the words of
\* each line joined by single spaces; nothing else changes.
C1_AsStated ==
    (Returned /\ strength[1] = 0) => result = Normalized(text, "start", TRUE)

\* C1 amended: the same, except that a line ending that ends the text is
\* dropped: the lines are joined by LF, none follows the last one.
C1_SeverityZero ==
    (Returned /\ strength[1] = 0) => result = Normalized(text, "start", FALSE)

\* Severity 0 on a text with a rule target and a final line ending: the
\* target is returned as it was, the ending is not returned.
C1_Witness ==
    /\ Returned
    /\ strength[1] = 0
    /\ text = <<CyrI, LF>>
    /\ result = <<CyrI>>

----------------------------------------------------------------------------
(* C2 - C7.  The corpus tools, under SpecGen.                              *)

\* The generation runs are over (the assemblers may have run).
GenAtRest == gpc \in {"idle", "assembled"}

LastRun == runs[Len(runs)]

\* The paths of the variant files of a directory of result_folder.
VariantPaths(dir) == {p \in DOMAIN outFs : p[1] = dir}

DocNamed(name) == CHOOSE k \in 1 .. Len(refDir) : refDir[k].name = name

\* C2: when every generation run so far had the arguments of the first one
\* and the random source gave each run the same draws (every run started
\* at the same place of the tape), the output files after a later run are
\* those after the first run: the same paths, every file with the same
\* bytes.
C2_RerunSameFiles ==
    (GenAtRest /\ Len(runs) >= 2 /\ \A k \in 1 .. Len(runs) : runs[k] = runs[1])
        => outFs = firstFs

\* A second run with the arguments of the first, two levels up to severity
\* 1, that left a.txt's second variant corrupted, and as the first run did.
C2_Witness ==
    /\ gpc = "idle"
    /\ Len(runs) = 2
    /\ runs[1] = runs[2]
    /\ runs[1].num_examples = 2
    /\ runs[1].max_dirty = One
    /\ refDir[1].data = Privit \o <<LF>>
    /\ outFs[<<<<"a">>, 2>>] # Privit
    /\ outFs = firstFs

\* C3 as stated: after one or more generation runs, document-level assembly
\* has for each reference document one example per variant file of its
\* sub-directory, and that number is num_examples of the most recent run.
C3_AsStated ==
    (docCorpus # NotRun /\ runs # <<>>) =>
        /\ docCorpus.status = "written"
        /\ Len(docCorpus.data) = Cardinality(Documents)
        /\ \A j \in 1 .. Len(docCorpus.data) :
             LET g == docCorpus.data[j]
             IN  /\ Len(g.examples) = Cardinality(VariantPaths(splitext(g.name)))
                 /\ Len(g.examples) = LastRun.num_examples

LargestRun == CHOOSE n \in {runs[k].num_examples : k \in 1 .. Len(runs)} :
                  \A k \in 1 .. Len(runs) : runs[k].num_examples <= n

\* C3 amended: after one or more generation runs on an output directory
\* that was empty at first, document-level assembly has for each reference
\* document one example per variant file of its sub-directory, and that
\* number is the largest num_examples of the runs so far.
C3_CountIsLargestRun ==
    (docCorpus # NotRun /\ runs # <<>>) =>
        /\ docCorpus.status = "written"
        /\ Len(docCorpus.data) = Cardinality(Documents)
        /\ \A j \in 1 .. Len(docCorpus.data) :
             LET g == docCorpus.data[j]
             IN  /\ Len(g.examples) = Cardinality(VariantPaths(splitext(g.name)))
                 /\ Len(g.examples) = LargestRun

\* A run of two levels, then one of one level, then the assembly: two
\* examples for a document.
C3_Witness ==
    /\ docCorpus.status = "written"
    /\ Len(runs) = 2
    /\ runs[1].num_examples = 2
    /\ runs[2].num_examples = 1
    /\ \E j \in 1 .. Len(docCorpus.data) : Len(docCorpus.data[j].examples) = 2

\* C4 as stated: when a run is over, every document and every ordinal i of
\* the run has the file <result folder of the document>/example_i.txt, the
\* file holds what make_dirty returned for that document at the i-th
\* severity, and two different (document, ordinal) pairs have different
\* paths.
C4_AsStated ==
    (gpc = "idle" /\ runs # <<>>) =>
        LET n == LastRun.num_examples
            path(k, i) == <<splitext(refDir[k].name), i>>
        IN  /\ \A k \in Documents : \A i \in 1 .. n :
                 /\ path(k, i) \in DOMAIN outFs
                 /\ outFs[path(k, i)] = written[<<k, i>>]
            /\ \A k1, k2 \in Documents : \A i, j \in 1 .. n :
                 path(k1, i) = path(k2, j) => (k1 = k2 /\ i = j)

\* C5: line-level assembly is not ended by an error once every document has
\* its folder; it takes every variant file of a document once, in whatever
\* order the directory lists them; for every variant file it has
\* Min(original lines, variant lines) examples, the i-th made of the i-th variant line and the i-th
\* original line, both without whitespace at their ends.
C5_LinePairs ==
    (lineCorpus # NotRun /\ runs # <<>>) =>
        /\ lineCorpus.status = "written"
        /\ Len(lineCorpus.data) = Cardinality(Documents)
        /\ \A j \in 1 .. Len(lineCorpus.data) :
             LET g   == lineCorpus.data[j]
                 k   == DocNamed(g.name)
                 dir == splitext(g.name)
                 o   == readlines(refDir[k].data)
             IN  /\ Len(g.variants) = Cardinality(VariantPaths(dir))
                 /\ {<<dir, g.variants[v].file>> : v \in 1 .. Len(g.variants)}
                      = VariantPaths(dir)
                 /\ \A v \in 1 .. Len(g.variants) :
                      LET d  == readlines(outFs[<<dir, g.variants[v].file>>])
                          ex == g.variants[v].examples
                      IN  /\ Len(ex) = Min(Len(o), Len(d))
                          /\ \A i \in 1 .. Len(ex) :
                               /\ ex[i].target = strip(o[i])
                               /\ ex[i].text = strip(d[i])
                               /\ \A side \in {ex[i].target, ex[i].text} :
                                    side # <<>> =>
                                        /\ side[1] \notin Whitespace
                                        /\ side[Len(side)] \notin Whitespace

\* A variant with fewer lines than its document, and as many examples as
\* the variant has lines; another variant with as many lines as its
\* document (two) and two examples.
C5_Witness ==
    /\ lineCorpus.status = "written"
    /\ \E j \in 1 .. Len(lineCorpus.data) :
         LET g == lineCorpus.data[j]
             o == readlines(refDir[DocNamed(g.name)].data)
         IN  \E v \in 1 .. Len(g.variants) :
               LET d == readlines(outFs[<<splitext(g.name), g.variants[v].file>>])
               IN  /\ Len(d) >= 1
                   /\ Len(d) < Len(o)
                   /\ Len(g.variants[v].examples) = Len(d)
    /\ \E j \in 1 .. Len(lineCorpus.data) :
         LET g == lineCorpus.data[j]
             o == readlines(refDir[DocNamed(g.name)].data)
         IN  \E v \in 1 .. Len(g.variants) :
               LET d == readlines(outFs[<<splitext(g.name), g.variants[v].file>>])
               IN  /\ Len(d) = 2
                   /\ Len(o) = 2
                   /\ Len(g.variants[v].examples) = 2

\* The example of C6: only a.txt, every run with 3 levels of severity 0.
C6_Scenario ==
    /\ refDir = << [name |-> TxtA, data |-> Privit \o <<LF>>] >>
    /\ runs # <<>>
    /\ \A k \in 1 .. Len(runs) :
         /\ runs[k].num_examples = LevelsExample
         /\ runs[k].min_dirty = Zero
         /\ runs[k].max_dirty = Zero
    /\ GenAtRest

C6_ThreeFiles == DOMAIN outFs = {<<<<"a">>, n>> : n \in 1 .. 3}

\* C6 as stated: in the example the three variant files hold the text with
\* its final line terminator, and the document-level corpus has three
\* entries whose text and target are the text's line after trimming.
C6_AsStated ==
    C6_Scenario =>
        /\ C6_ThreeFiles
        /\ \A p \in DOMAIN outFs : outFs[p] = Privit \o <<LF>>
        /\ docCorpus # NotRun =>
             /\ docCorpus.status = "written"
             /\ Len(docCorpus.data) = 1
             /\ Len(docCorpus.data[1].examples) = 3
             /\ \A i \in 1 .. 3 :
                  /\ strip(docCorpus.data[1].examples[i].text) = Privit
                  /\ strip(docCorpus.data[1].examples[i].target) = Privit

\* C6 amended: in the example the three variant files hold the text
\* without its final line terminator; the document-level corpus has three
\* entries, the text the variant, the target the document with its
\* terminator, equal after trimming.
C6_ZeroSeverityFiles ==
    C6_Scenario =>
        /\ C6_ThreeFiles
        /\ \A p \in DOMAIN outFs : outFs[p] = Privit
        /\ docCorpus # NotRun =>
             /\ docCorpus.status = "written"
             /\ Len(docCorpus.data) = 1
             /\ Len(docCorpus.data[1].examples) = 3
             /\ \A i \in 1 .. 3 :
                  /\ docCorpus.data[1].examples[i].text = Privit
                  /\ docCorpus.data[1].examples[i].target = Privit \o <<LF>>
                  /\ strip(docCorpus.data[1].examples[i].text) = Privit
                  /\ strip(docCorpus.data[1].examples[i].target) = Privit

C6_Witness ==
    /\ C6_Scenario
    /\ docCorpus.status = "written"
    /\ Len(docCorpus.data[1].examples) = 3
    /\ outFs[<<<<"a">>, 3>>] = Privit

\* Fractions <<numerator, denominator>> with positive denominators.
RatEq(a, b) == a[1] * b[2] = b[1] * a[2]

RatSub(a, b) == <<a[1] * b[2] - b[1] * a[2], a[2] * b[2]>>

\* C7: the ramp of a run has num_examples values; the first is min_dirty,
\* the last (of two or more) is max_dirty, neighbours are equally far
\* apart; one level gives [min_dirty]; 5 levels from 0 to 1 give
\* 0, 1/4, 1/2, 3/4, 1.
C7_Ramp ==
    runs # <<>> =>
        LET n == LastRun.num_examples
            d == dirtiness
        IN  /\ Len(d) = n
            /\ n >= 1 => RatEq(d[1], LastRun.min_dirty)
            /\ n >= 2 => RatEq(d[n], LastRun.max_dirty)
            /\ \A k \in 1 .. (n - 2) :
                 RatEq(RatSub(d[k + 1], d[k]), RatSub(d[k + 2], d[k + 1]))
            /\ n = 1 => d = <<LastRun.min_dirty>>
            /\ (n = 5 /\ LastRun.min_dirty = Zero /\ LastRun.max_dirty = One) =>
                 \A k \in 1 .. 5 : RatEq(d[k], <<k - 1, 4>>)

\* A run of five levels from 0 to 1 has made its ramp: the fourth level is
\* 3/4, the fifth 1.
C7_Witness ==
    /\ runs # <<>>
    /\ LastRun.num_examples = RampExample
    /\ Len(dirtiness) = 5
    /\ gpc = "listdir"
    /\ RatEq(dirtiness[4], <<3, 4>>)
    /\ RatEq(dirtiness[5], <<1, 1>>)

----------------------------------------------------------------------------
(* C8.  The answers of /extract, under SpecSrv.                            *)

Answered(r) == req[r].pc \in {"responded", "shown"}

\* The upload's name does not end in .png, .jpg or .jpeg (in any case).
Rejected(r) == req[r].filename[Len(req[r].filename)]
                   \notin {"png", "jpg", "jpeg", "PNG", "JPG", "JPEG"}

\* C8 as stated: a request that was rejected or that failed while saving
\* or in OCR is answered with a status outside 200..299 and an {"error"}
\* body, and the client then shows an error; only an OCR that succeeded is
\* answered with {"text"}; OCR is not invoked for a rejected request.
C8_AsStated ==
    \A r \in 1 .. NReq :
        Answered(r) =>
            /\ (Rejected(r) \/ req[r].failed \in {"save", "ocr"}) =>
                 /\ req[r].status \notin 200 .. 299
                 /\ req[r].body.kind = "error"
                 /\ req[r].pc = "shown" => req[r].shown.kind = "Error"
            /\ req[r].body.kind = "text" => (req[r].ocr /\ req[r].failed = "none")
            /\ Rejected(r) => ~req[r].ocr

----------------------------------------------------------------------------
(* C9.  What the character-substitution phase can touch.                   *)

\* The rule list of the amended claim: the letters are the Cyrillic
\* i, o, e, a, ze, te, ya, ve and i again; the candidates are as listed.
\* The comments of lines 36, 41, 46 and 51 name the Latin i, o, e, a; the
\* patterns under them (lines 39, 44, 49, 54) are the Cyrillic letters.
RulesAmended == <<
    [target |-> Numero,
     variants |-> { <<"N">>, <<"N", "deg">>, <<"N", "ord">>,
                    <<"cyr_M", "cyr_e">>, <<"cyr_N", "cyr_e">>, <<"cyr_L", "cyr_e">>,
                    <<"cyr_N">>, <<"cyr_N", "cyr_o">>, <<"cyr_L", "cyr_o">>,
                    <<"cyr_M", "cyr_o">>, <<Numero>> }],
    [target |-> "0",      variants |-> { <<"0">>, <<"O">>, <<"o">> }],
    [target |-> "1",      variants |-> { <<"1">>, <<"I">>, <<"l">>, <<"i">> }],
    [target |-> "2",      variants |-> { <<"2">>, <<"Z">>, <<"z">> }],
    [target |-> "cyr_i",  variants |-> { <<"i">>, <<"I">>, <<"l">>, <<"1">> }],
    [target |-> "cyr_o",  variants |-> { <<"o">>, <<"O">>, <<"0">> }],
    [target |-> "cyr_e",  variants |-> { <<"e">>, <<"E">>, <<"3">> }],
    [target |-> "cyr_a",  variants |-> { <<"a">>, <<"A">>, <<"4">> }],
    [target |-> "cyr_z",  variants |-> { <<"s">>, <<"S">>, <<"5">> }],
    [target |-> "cyr_t",  variants |-> { <<"t">>, <<"T">>, <<"7">> }],
    [target |-> "cyr_ya", variants |-> { <<"g">>, <<"G">>, <<"9">> }],
    [target |-> "cyr_v",  variants |-> { <<"b">>, <<"B">>, <<"8">> }],
    [target |-> "cyr_i",  variants |-> { <<"l">>, <<"L">>, <<"1">> }] >>

\* C9 as stated: a step of the phase replaces only occurrences of the
\* target the specification lists for that rule (No, 0, 1, 2 and the Latin
\* i, o, e, a, s, t, g, b, l), each by one listed candidate, and leaves
\* every other character, every Cyrillic letter among them, as it was.
C9_AsStated ==
    sub.rule # 0 =>
        \E cand \in SeqRange(RulesInSpec[sub.rule].variants)
                    \cup {<<RulesInSpec[sub.rule].target>>} :
            IsSubstitution(sub.before, line, RulesInSpec[sub.rule].target, cand)

\* C9 amended: the targets are No, 0, 1, 2 and the Cyrillic letters of
\* RulesAmended.  A step of rule k replaces only occurrences of rule k's
\* target in the line as it then stands, by one candidate of rule k, and
\* leaves every other character (every Latin letter among them) as it was;
\* and a rule that fires with a candidate other than its target on a line
\* that holds the target changes the line.
C9_OnlyListedTargets ==
    sub.rule # 0 =>
        LET t == RulesAmended[sub.rule].target IN
        /\ \E cand \in RulesAmended[sub.rule].variants \cup {<<t>>} :
             IsSubstitution(sub.before, line, t, cand)
        /\ (sub.fired /\ sub.pick # <<t>> /\ t \in SeqRange(sub.before))
              => line # sub.before

\* Every rule has fired on the line that holds all the targets beside the
\* Latin letters i, o, e, a, s, t, g, b, l: each target is replaced by the
\* second candidate of its rule (the Cyrillic i by rule 5, so that rule 13
\* found none), and the Latin letters are as they were.
C9_Witness ==
    /\ pc = "tokenize"
    /\ text = AllTargets
    /\ sub.rule = 13
    /\ sub.fired
    /\ line = <<"N", "deg", "O", "I", "Z", "I", "O", "E", "A", "S", "T", "G", "B", SP,
                "i", "o", "e", "a", "s", "t", "g", "b", "l">>

----------------------------------------------------------------------------
(* C10.  One candidate per firing.                                         *)

\* C10: when a substitution rule fires, every occurrence of its target in
\* the line is replaced by the one candidate chosen, and nothing else
\* changes; when it does not fire, the line is unchanged.
C10_OneCandidateForAll ==
    sub.rule # 0 =>
        IF sub.fired
        THEN /\ sub.pick \in SeqRange(Rules[sub.rule].variants)
             /\ IsSubstitution(sub.before, line, Rules[sub.rule].target, sub.pick)
        ELSE line = sub.before

\* The numero rule has fired on a line with two numero signs: both became
\* the same two-character candidate.
C10_Witness ==
    /\ sub.rule = 1
    /\ sub.fired
    /\ sub.before = <<Numero, Numero>>
    /\ Len(sub.pick) = 2
    /\ line = sub.pick \o sub.pick

----------------------------------------------------------------------------
(* C11.  The order of the rules within a line.                             *)

\* The places of make_dirty within one line, in the order of the source.
Rank(p) ==
    CASE p = "sub"      -> 1
      [] p = "tokenize" -> 2
      [] p = "edit"     -> 3
      [] p = "swap"     -> 4
      [] p = "split"    -> 5
      [] p = "join"     -> 6
      [] p = "rejoin"   -> 7
      [] p = "del"      -> 8
      [] p = "append"   -> 9
      [] OTHER          -> 0

InLine(p) == Rank(p) > 0

HasNoSpace(word) == \A k \in 1 .. Len(word) : word[k] \notin Whitespace

\* The characters of s that are not whitespace.
RECURSIVE Unspaced(_)
Unspaced(s) ==
    IF s = <<>> THEN <<>>
    ELSE (IF Head(s) \in Whitespace THEN <<>> ELSE <<Head(s)>>) \o Unspaced(Tail(s))

\* The words of ws one after the other.
RECURSIVE Concat(_)
Concat(ws) == IF ws = <<>> THEN <<>> ELSE Head(ws) \o Concat(Tail(ws))

\* C11: a step within a line never goes back to an earlier rule: the 13
\* substitutions in order, then the tokenizing, the edits, the swap, the
\* split, the join, the rejoining, the deletion and the appending; every
\* line passes the tokenizing, the rejoining and the deletion.  The
\* deletion works on the words of the line that the join left, tokenized
\* again (each half of a split word is a word of its own).  No step changes
\* the list of the text's lines, and the lines done so far are only added to.
C11_RuleOrder ==
    [][ /\ (InLine(pc) /\ InLine(pc') /\ lineNo' = lineNo) =>
             /\ Rank(pc') >= Rank(pc)
             /\ (pc = "sub" /\ pc' = "sub") => idx' = idx + 1
        /\ pc' = "tokenize" => (pc = "sub" /\ idx = Len(Rules))
        /\ (pc' = "sub" /\ pc # "sub") => (idx' = 1 /\ pc \in {"call", "append"})
        /\ pc' \in {"edit", "swap", "split", "join"} => Rank(pc) \in 2 .. Rank(pc')
        /\ pc' = "del" =>
             /\ pc = "rejoin"
             /\ line' = join(<<SP>>, words)
             /\ Concat(words') = Unspaced(line')
             /\ \A k \in 1 .. Len(words') : words'[k] # <<>> /\ HasNoSpace(words'[k])
        /\ pc' = "append" => pc = "del"
        /\ pc' = "rejoin" => Rank(pc) \in 2 .. 6
        /\ (InLine(pc) /\ InLine(pc')) =>
             /\ lines' = lines
             /\ lineNo' \in {lineNo, lineNo + 1}
             /\ line' = lines[lineNo'] \/ lineNo' = lineNo
             /\ dirty_lines' = dirty_lines
                  \/ (pc = "append" /\ Len(dirty_lines') = Len(dirty_lines) + 1
                      /\ SubSeq(dirty_lines', 1, Len(dirty_lines)) = dirty_lines)
      ]_vars

\* The split cut a word in two and the deletion finds two words where the
\* line had one.
C11_Witness ==
    /\ pc = "del"
    /\ Len(split(lines[lineNo], <<>>)) = 1
    /\ Len(words) = 2
    /\ lineNo = 2

----------------------------------------------------------------------------
(* C12.  The swap, the split and the join act at most once per line.       *)

\* C12: on one line there is at most one swap, one split and one join, and
\* a loop that is still scanning has not acted; every word a firing split
\* trial passed by is shorter than 2; the word that was split has 2 or
\* more characters and is cut after its first and before its last one.
C12_AtMostOnce ==
    /\ acted.swap <= 1
    /\ acted.split <= 1
    /\ acted.join <= 1
    /\ pc = "swap" => acted.swap = 0
    /\ pc = "split" => acted.split = 0
    /\ pc = "join" => acted.join = 0
    /\ \A word \in acted.skipped : Len(word) < 2
    /\ Len(acted.cut) = acted.split
    /\ \A k \in 1 .. Len(acted.cut) :
         /\ Len(acted.cut[k].word) >= 2
         /\ acted.cut[k].index \in 1 .. (Len(acted.cut[k].word) - 1)

\* The line 'abc de fgh', which the edits left as 'bc', 'e', 'gh': the
\* swap was done at the first of its two pairs, the split's trial fired on
\* 'e' and passed it by, then cut 'bc' and left 'gh' unvisited, and the
\* join was done at the first of its two pairs.
C12_Witness ==
    /\ pc = "rejoin"
    /\ lines[lineNo] = ThreeWords
    /\ acted.swap = 1
    /\ acted.split = 1
    /\ acted.join = 1
    /\ acted.skipped = {<<"e">>}
    /\ acted.cut = <<[word |-> <<"b", "c">>, index |-> 1]>>
    /\ words = << <<"e", "b", SP, "c">>, <<"g", "h">> >>

----------------------------------------------------------------------------
(* C13.  No draw from an empty range.                                      *)

\* How far make_dirty is from its return: the lines still to do, the place
\* within the line, the turns the loop at that place has left.
Measure ==
    IF pc = "call" THEN 1024 * (Len(splitlines(text, <<>>)) + 1)
    ELSE IF ~InLine(pc) THEN 0
    ELSE 1024 * (Len(lines) - lineNo) + 32 * (10 - Rank(pc)) + (31 - idx)

\* C13: make_dirty never raises: the word the edit loop is at is never
\* empty, so random.randint(0, len(word) - 1) has a value to give, and
\* a word that was split had 2 or more characters; while make_dirty has not
\* returned it can take a step, and every step brings it nearer to its
\* return.
C13_NeverRaises ==
    /\ [](/\ pc # "raised"
          /\ pc = "edit" => Len(words[idx + 1]) >= 1
          /\ \A k \in 1 .. Len(acted.cut) : Len(acted.cut[k].word) - 1 >= 1
          /\ pc \in {"sub", "edit", "swap", "split", "join"} => idx \in 0 .. 31
          /\ pc # "ret" => ENABLED MakeDirtyStep)
    /\ [][Measure' < Measure]_vars

\* The edit loop took the only character of a word, the split loop's trial
\* fired on the empty word and passed it by; make_dirty went on.
C13_Witness ==
    /\ pc = "rejoin"
    /\ <<>> \in acted.skipped
    /\ acted.split = 0

----------------------------------------------------------------------------
(* C14.  The line boundaries of the output.                                *)

\* The number of LF in s.
RECURSIVE CountLF(_)
CountLF(s) ==
    IF s = <<>> THEN 0
    ELSE (IF Head(s) = LF THEN 1 ELSE 0) + CountLF(Tail(s))

\* The number of lines of s for str.splitlines: one per line boundary (CR
\* LF is one boundary) and one for what follows the last boundary, if
\* anything does.
RECURSIVE CountLines(_)
CountLines(s) ==
    IF s = <<>> THEN 0
    ELSE IF Head(s) = CR /\ Len(s) >= 2 /\ s[2] = LF
         THEN 1 + CountLines(SubSeq(s, 3, Len(s)))
    ELSE IF Head(s) \in {LF, CR, FF} THEN 1 + CountLines(Tail(s))
    ELSE IF \A k \in 1 .. Len(s) : s[k] \notin {LF, CR, FF} THEN 1
    ELSE CountLines(Tail(s))

\* The number of lines the line-level assembler reads from a file of text s.
ReadBack(s) == Len(textlines(s, <<>>))

\* C14 as stated: the output for a non-empty text of K lines has K - 1 LF,
\* and a file of it has as many lines for the assembler as a file of the
\* text.
C14_AsStated ==
    (Returned /\ text # <<>>) =>
        /\ CountLF(result) = CountLines(text) - 1
        /\ ReadBack(result) = ReadBack(text)

\* C14 amended: the output for a non-empty text of K lines (the lines of
\* str.splitlines) has K - 1 LF and no other line boundary; a file of it
\* has K lines for the assembler when the last segment is not empty and
\* K - 1 when it is.
C14_SegmentsKept ==
    (Returned /\ text # <<>>) =>
        /\ CountLF(result) = CountLines(text) - 1
        /\ \A k \in 1 .. Len(result) : result[k] \notin {CR, FF}
        /\ ReadBack(result) =
             IF result = <<>> \/ result[Len(result)] = LF
             THEN CountLines(text) - 1
             ELSE CountLines(text)

\* A text of two lines for make_dirty that is one line for the assembler:
\* the output has one LF and two lines for the assembler.
C14_Witness ==
    /\ Returned
    /\ text = <<FF, "i">>
    /\ CountLines(text) = 2
    /\ CountLF(result) = 1
    /\ ReadBack(result) = 2
    /\ ReadBack(text) = 1

----------------------------------------------------------------------------
(* C15.  Concurrent requests and their temporary files.                    *)

\* C15 as stated: whatever the interleaving, the OCR of a request ran on a
\* file that held the bytes of that request's upload, and once every
\* request is answered /tmp has no file that a request made.
C15_AsStated ==
    /\ \A r \in 1 .. NReq :
         req[r].ocr => req[r].saw = req[r].image
    /\ (\A r \in 1 .. NReq : Answered(r)) => DOMAIN tmp = {}

====
